---- MODULE Spec2Model ----
(***************************************************************************)
(* kvbase: one CRUD contract (Count, Create, Read, Update, Delete, Drop,   *)
(* Get) over two embedded stores.                                          *)
(*   Adapter A, BboltBackend (src/bboltdb.go): a bucket is a native bbolt  *)
(*     bucket, ensured by checkBucket before every operation but Drop.     *)
(*   Adapter B, LevelBackend (src/unnamed/part_000): a bucket is the key   *)
(*     prefix bucket+"_" of one flat key space.                            *)
(* Both adapters are driven in lockstep by the same sequence of calls, so  *)
(* that their answers can be compared call by call.  Strings and stored    *)
(* values are byte sequences ([]byte), written as sequences of codes.      *)
(* Every call runs to completion before the next one starts.               *)
(***************************************************************************)
EXTENDS Integers, Sequences, FiniteSets, TLC

\* ------------------------------------------------------------------ bounds

\* Serializable values are struct{N int} with N in 1..MaxN.
MaxN == 2

\* ------------------------------------------------------------------ strings

\* The separator byte '_' of bucket+"_"+key.
Underscore == 95

\* "a", "b", "c", "a_b", "b_c" as byte sequences.
StrA == <<97>>
StrB == <<98>>
StrC == <<99>>
StrAB == <<97, Underscore, 98>>
StrBC == <<98, Underscore, 99>>

\* Bucket names of the general specification: "a" and "a_b".
Buckets == {StrA, StrAB}

\* Bucket names without an underscore: "a" and "b".
PlainBuckets == {StrA, StrB}

\* Keys: "c" and "b_c".
Keys == {StrC, StrBC}

AllBuckets == Buckets \cup PlainBuckets

\* strings.HasPrefix / util.BytesPrefix: p is a prefix of s.
HasPrefix(s, p) == Len(p) <= Len(s) /\ SubSeq(s, 1, Len(p)) = p

\* strings.TrimPrefix(s, p)
TrimPrefix(s, p) == IF HasPrefix(s, p) THEN SubSeq(s, Len(p) + 1, Len(s)) ELSE s

\* bytes.Compare(s, t) < 0: the order in which both engines iterate keys.
RECURSIVE BytesLess(_, _)
BytesLess(s, t) ==
  IF s = <<>> THEN t # <<>>
  ELSE IF t = <<>> THEN FALSE
  ELSE IF Head(s) # Head(t) THEN Head(s) < Head(t)
  ELSE BytesLess(Tail(s), Tail(t))

\* ------------------------------------------------------------------ values

\* Error kinds returned by the adapters.
ErrNone == "nil"
ErrAlreadyExists == "AlreadyExists"
ErrNotFound == "NotFound"
ErrSerialization == "Serialization"
ErrBucketNotFound == "BucketNotFound"

\* A nil []byte.
Nil == <<>>

\* Go values handed to the adapters: struct{N int}, or a channel, which
\* encoding/json refuses to encode.
StructOf(n) == [kind |-> "struct", N |-> n]
ChanValue == [kind |-> "chan", N |-> 0]
NoValue == [kind |-> "none", N |-> 0]
GoodModels == {StructOf(n) : n \in 1..MaxN}
Models == GoodModels \cup {ChanValue}

\* strconv: decimal digits of n.
RECURSIVE Itoa(_)
Itoa(n) == IF n < 10 THEN <<48 + n>> ELSE Itoa(n \div 10) \o <<48 + (n % 10)>>

IsDigits(s) == s # <<>> /\ \A i \in 1..Len(s) : s[i] \in 48..57

RECURSIVE Atoi(_)
Atoi(s) == IF Len(s) = 1 THEN s[1] - 48
           ELSE 10 * Atoi(SubSeq(s, 1, Len(s) - 1)) + (s[Len(s)] - 48)

\* {"N":  and  }  and  {
JsonOpen == <<123, 34, 78, 34, 58>>
JsonClose == <<125>>
JsonOpenBrace == <<123>>

\* Mutant: the field is not encoded, the text is {}.
MarshalDropsField(model) ==
  IF model.kind = "chan" THEN [err |-> ErrSerialization, data |-> Nil]
  ELSE [err |-> ErrNone, data |-> JsonOpenBrace \o JsonClose]

\* json.Marshal(&model): the JSON text {"N":<n>}, or an error for a channel.
Marshal(model) ==
  IF model.kind = "chan" THEN [err |-> ErrSerialization, data |-> Nil]
  ELSE [err |-> ErrNone, data |-> JsonOpen \o Itoa(model.N) \o JsonClose]

\* json.Unmarshal(data, &model).  model is an interface value: holding a
\* pointer to struct{N int} (ptr) the struct it points to is filled in; holding
\* anything else it is replaced by a fresh generic map[string]interface{}.
\* The text {} leaves N at its zero value.
Unmarshal(data, ptr) ==
  LET n == Len(data)
      body == SubSeq(data, Len(JsonOpen) + 1, n - 1)
      wellFormed == /\ n > Len(JsonOpen) + 1
                    /\ HasPrefix(data, JsonOpen)
                    /\ data[n] = JsonClose[1]
                    /\ IsDigits(body)
  IN IF data = JsonOpenBrace \o JsonClose
     THEN [err |-> ErrNone, value |-> [kind |-> IF ptr THEN "struct" ELSE "map", N |-> 0]]
     ELSE IF ~wellFormed THEN [err |-> ErrSerialization, value |-> NoValue]
     ELSE [err |-> ErrNone,
           value |-> [kind |-> IF ptr THEN "struct" ELSE "map", N |-> Atoi(body)]]

\* ------------------------------------------------------------------ maps

EmptyMap == [x \in {} |-> Nil]

MapPut(m, k, v) == [x \in (DOMAIN m) \cup {k} |-> IF x = k THEN v ELSE m[x]]

MapDelete(m, k) == [x \in (DOMAIN m) \ {k} |-> m[x]]

\* What a call returns: the error, and the count, value or mapping if any.
Result(e, c, v, r) == [err |-> e, count |-> c, value |-> v, results |-> r]

\* ------------------------------------------------------------------ Adapter A
\* The bbolt store: a function from the names of the existing buckets to the
\* bucket's content, a function from its keys to the stored bytes.

\* checkBucket: tx.CreateBucketIfNotExists in an update transaction.
checkBucket(db, bucket) ==
  IF bucket \in DOMAIN db THEN db ELSE MapPut(db, bucket, EmptyMap)

\* view: ensure the bucket, then b.Get(key) in a read transaction.  In
\* "return data, db.View(...)" the variable the closure assigns is read after
\* the call has run, as the gc toolchain orders it (likewise counter in Count).
view(db, bucket, key) ==
  LET d == checkBucket(db, bucket)
      data == IF key \in DOMAIN d[bucket] THEN d[bucket][key] ELSE Nil
  IN [db |-> d, data |-> data,
      err |-> IF data = Nil THEN ErrNotFound ELSE ErrNone]

\* Mutant: the encoding error is returned only after the Put.
writeBeforeCheck(db, bucket, key, model) ==
  LET m == Marshal(model)
      d == checkBucket(db, bucket)
  IN [db |-> MapPut(d, bucket, MapPut(d[bucket], key, m.data)), err |-> m.err]

\* write: encode, ensure the bucket, then b.Put(key, data).
write(db, bucket, key, model) ==
  LET m == Marshal(model)
      d == checkBucket(db, bucket)
  IN IF m.err # ErrNone THEN [db |-> db, err |-> m.err]
     ELSE [db |-> MapPut(d, bucket, MapPut(d[bucket], key, m.data)),
           err |-> ErrNone]

\* b.ForEach of Get: the records are visited in key order and each is decoded
\* into the one model value; results[key] = model stores that same value
\* under every key, so with a pointer every entry shows what it points to now.
RECURSIVE BboltForEach(_, _, _, _)
BboltForEach(b, todo, ptr, acc) ==
  IF todo = {} THEN [err |-> ErrNone, results |-> acc]
  ELSE LET key == CHOOSE k \in todo : \A o \in todo \ {k} : BytesLess(k, o)
           u == Unmarshal(b[key], ptr)
       IN IF u.err # ErrNone THEN [err |-> u.err, results |-> acc]
          ELSE BboltForEach(b, todo \ {key}, ptr,
                 [x \in (DOMAIN acc) \cup {key} |->
                    IF ptr \/ x = key THEN u.value ELSE acc[x]])

\* Mutant: counter is returned as it was before the transaction ran.
BboltCountStale(db, bucket) ==
  [db |-> checkBucket(db, bucket), res |-> Result(ErrNone, 0, NoValue, EmptyMap)]

BboltCount(db, bucket) ==
  LET d == checkBucket(db, bucket)
  IN [db |-> d,
      res |-> Result(ErrNone, Cardinality(DOMAIN d[bucket]), NoValue, EmptyMap)]

\* Mutant: no existence check before the write.
BboltCreateNoCheck(db, bucket, key, model) ==
  LET w == write(db, bucket, key, model)
  IN [db |-> w.db, res |-> Result(w.err, 0, NoValue, EmptyMap)]

BboltCreate(db, bucket, key, model) ==
  LET v == view(db, bucket, key)
      w == write(v.db, bucket, key, model)
  IN IF v.err = ErrNone
     THEN [db |-> v.db, res |-> Result(ErrAlreadyExists, 0, NoValue, EmptyMap)]
     ELSE [db |-> w.db, res |-> Result(w.err, 0, NoValue, EmptyMap)]

BboltDelete(db, bucket, key) ==
  LET v == view(db, bucket, key)
  IN IF v.err # ErrNone
     THEN [db |-> v.db, res |-> Result(v.err, 0, NoValue, EmptyMap)]
     ELSE [db |-> MapPut(v.db, bucket, MapDelete(v.db[bucket], key)),
           res |-> Result(ErrNone, 0, NoValue, EmptyMap)]

\* Mutant: a missing bucket is not reported.
BboltDropIgnoresMissing(db, bucket) ==
  [db |-> IF bucket \in DOMAIN db THEN MapDelete(db, bucket) ELSE db,
   res |-> Result(ErrNone, 0, NoValue, EmptyMap)]

\* tx.DeleteBucket: an error when the bucket is not there.
BboltDrop(db, bucket) ==
  IF bucket \notin DOMAIN db
  THEN [db |-> db, res |-> Result(ErrBucketNotFound, 0, NoValue, EmptyMap)]
  ELSE [db |-> MapDelete(db, bucket),
        res |-> Result(ErrNone, 0, NoValue, EmptyMap)]

BboltGet(db, bucket, ptr) ==
  LET d == checkBucket(db, bucket)
      f == BboltForEach(d[bucket], DOMAIN d[bucket], ptr, EmptyMap)
  IN [db |-> d, res |-> Result(f.err, 0, NoValue, f.results)]

\* The caller hands Read a pointer to its struct; value is what it points
\* to after the call.
BboltRead(db, bucket, key) ==
  LET v == view(db, bucket, key)
      u == Unmarshal(v.data, TRUE)
  IN IF v.err # ErrNone
     THEN [db |-> v.db, res |-> Result(v.err, 0, NoValue, EmptyMap)]
     ELSE [db |-> v.db, res |-> Result(u.err, 0, u.value, EmptyMap)]

BboltUpdate(db, bucket, key, model) ==
  LET v == view(db, bucket, key)
      w == write(v.db, bucket, key, model)
  IN IF v.err # ErrNone
     THEN [db |-> v.db, res |-> Result(v.err, 0, NoValue, EmptyMap)]
     ELSE [db |-> w.db, res |-> Result(w.err, 0, NoValue, EmptyMap)]

\* ------------------------------------------------------------------ Adapter B
\* The LevelDB store: a function from the physical keys present to the stored
\* bytes.

\* bucket+"_"
BucketPrefix(bucket) == bucket \o <<Underscore>>

\* Mutant: the bucket name is length-prefixed, so that no two pairs share a
\* physical key.
PhysKeyLengthPrefixed(bucket, key) == <<Len(bucket)>> \o bucket \o <<Underscore>> \o key

\* bucket+"_"+key
PhysKey(bucket, key) == BucketPrefix(bucket) \o key

\* db.NewIterator(util.BytesPrefix(bucket+"_")): the physical keys it visits.
PrefixScan(db, bucket) == {p \in DOMAIN db : HasPrefix(p, BucketPrefix(bucket))}

\* The loop of Get, in key order, with the same sharing of model as above;
\* a decoding error returns no mapping at all.
RECURSIVE LevelIterate(_, _, _, _, _)
LevelIterate(db, todo, bucket, ptr, acc) ==
  IF todo = {} THEN [err |-> ErrNone, results |-> acc]
  ELSE LET p == CHOOSE k \in todo : \A o \in todo \ {k} : BytesLess(k, o)
           key == TrimPrefix(p, BucketPrefix(bucket))
           u == Unmarshal(db[p], ptr)
       IN IF u.err # ErrNone THEN [err |-> u.err, results |-> EmptyMap]
          ELSE LevelIterate(db, todo \ {p}, bucket, ptr,
                 [x \in (DOMAIN acc) \cup {key} |->
                    IF ptr \/ x = key THEN u.value ELSE acc[x]])

LevelCount(db, bucket) ==
  [db |-> db,
   res |-> Result(ErrNone, Cardinality(PrefixScan(db, bucket)), NoValue, EmptyMap)]

LevelCreate(db, bucket, key, model) ==
  LET p == PhysKey(bucket, key)
      m == Marshal(model)
  IN IF p \in DOMAIN db
     THEN [db |-> db, res |-> Result(ErrAlreadyExists, 0, NoValue, EmptyMap)]
     ELSE IF m.err # ErrNone
     THEN [db |-> db, res |-> Result(m.err, 0, NoValue, EmptyMap)]
     ELSE [db |-> MapPut(db, p, m.data),
           res |-> Result(ErrNone, 0, NoValue, EmptyMap)]

LevelDelete(db, bucket, key) ==
  LET p == PhysKey(bucket, key)
  IN IF p \notin DOMAIN db
     THEN [db |-> db, res |-> Result(ErrNotFound, 0, NoValue, EmptyMap)]
     ELSE [db |-> MapDelete(db, p),
           res |-> Result(ErrNone, 0, NoValue, EmptyMap)]

\* Mutant: the loop stops after the first key.
LevelDropFirstOnly(db, bucket) ==
  LET scan == PrefixScan(db, bucket)
      first == CHOOSE k \in scan : \A o \in scan \ {k} : BytesLess(k, o)
  IN [db |-> IF scan = {} THEN db ELSE MapDelete(db, first),
      res |-> Result(ErrNone, 0, NoValue, EmptyMap)]

\* Every key the iterator visits is deleted.
LevelDrop(db, bucket) ==
  [db |-> [p \in (DOMAIN db) \ PrefixScan(db, bucket) |-> db[p]],
   res |-> Result(ErrNone, 0, NoValue, EmptyMap)]

LevelGet(db, bucket, ptr) ==
  LET f == LevelIterate(db, PrefixScan(db, bucket), bucket, ptr, EmptyMap)
  IN [db |-> db, res |-> Result(f.err, 0, NoValue, f.results)]

LevelRead(db, bucket, key) ==
  LET p == PhysKey(bucket, key)
      u == Unmarshal(db[p], TRUE)
  IN IF p \notin DOMAIN db
     THEN [db |-> db, res |-> Result(ErrNotFound, 0, NoValue, EmptyMap)]
     ELSE [db |-> db, res |-> Result(u.err, 0, u.value, EmptyMap)]

LevelUpdate(db, bucket, key, model) ==
  LET p == PhysKey(bucket, key)
      m == Marshal(model)
  IN IF p \notin DOMAIN db
     THEN [db |-> db, res |-> Result(ErrNotFound, 0, NoValue, EmptyMap)]
     ELSE IF m.err # ErrNone
     THEN [db |-> db, res |-> Result(m.err, 0, NoValue, EmptyMap)]
     ELSE [db |-> MapPut(db, p, m.data),
           res |-> Result(ErrNone, 0, NoValue, EmptyMap)]

\* ------------------------------------------------------------------ state

VARIABLES
  bolt,    \* Adapter A: BboltBackend.Connection, the bbolt store
  level,   \* Adapter B: LevelBackend.Connection, the LevelDB store
  last,    \* the call made last and what each adapter returned for it
  track,   \* which history of the calls this run records (see HistStep)
  histA,   \* the recorded history of the calls on Adapter A
  histB,   \* the same for Adapter B
  named,   \* buckets named by a call since the store was opened or since
           \* their last successful Drop on Adapter A: by any call (any), and
           \* by a call other than Drop (other)
  adapter, \* the adapter concurrent callers share ("both": sequential calls)
  procs    \* concurrent callers: the call each is in and how far it has got

vars == <<bolt, level, last, track, histA, histB, named, adapter, procs>>

NoKey == <<>>

\* Concurrent callers (goroutines) of one adapter instance.
Procs == {1, 2}

\* A caller that has not called yet.
Idle == [op |-> "none", bucket |-> NoKey, key |-> NoKey, model |-> NoValue,
         ptr |-> FALSE, pc |-> "idle", data |-> Nil, scan |-> {},
         res |-> Result(ErrNone, 0, NoValue, EmptyMap)]

\* The history of one adapter, kept from the errors it returned.  A run
\* records the one history named by track:
\*   written: pairs named by a successful Create or Update;
\*   live:    pairs created and not since deleted or dropped;
\*   deleted: pairs deleted with no successful Create of the pair since;
\*   dropped: buckets dropped with no successful Create in the bucket since.
NoHist == [written |-> {}, live |-> {}, deleted |-> {}, dropped |-> {}]

HistStep(h, op, bucket, key, err) ==
  LET ok == err = ErrNone
      pair == <<bucket, key>>
  IN [written |-> IF track = "written" /\ ok /\ op \in {"Create", "Update"}
                  THEN h.written \cup {pair} ELSE h.written,
      live |-> IF track # "live" THEN h.live
               ELSE IF ok /\ op = "Create" THEN h.live \cup {pair}
               ELSE IF ok /\ op = "Delete" THEN h.live \ {pair}
               ELSE IF ok /\ op = "Drop" THEN {q \in h.live : q[1] # bucket}
               ELSE h.live,
      deleted |-> IF track # "deleted" THEN h.deleted
                  ELSE IF ok /\ op = "Delete" THEN h.deleted \cup {pair}
                  ELSE IF ok /\ op = "Create" THEN h.deleted \ {pair}
                  ELSE h.deleted,
      dropped |-> IF track # "dropped" THEN h.dropped
                  ELSE IF ok /\ op = "Drop" THEN h.dropped \cup {bucket}
                  ELSE IF ok /\ op = "Create" THEN h.dropped \ {bucket}
                  ELSE h.dropped]

NamedStep(op, bucket, err) ==
  IF op = "Drop" /\ err = ErrNone
  THEN [any |-> named.any \ {bucket}, other |-> named.other \ {bucket}]
  ELSE [any |-> named.any \cup {bucket},
        other |-> IF op = "Drop" THEN named.other ELSE named.other \cup {bucket}]

\* Both stores freshly opened and empty.
Opened ==
  /\ bolt = EmptyMap
  /\ level = EmptyMap
  /\ last = [op |-> "Open", bucket |-> NoKey, key |-> NoKey, model |-> NoValue,
             ptr |-> FALSE,
             A |-> Result(ErrNone, 0, NoValue, EmptyMap),
             B |-> Result(ErrNone, 0, NoValue, EmptyMap)]
  /\ histA = NoHist
  /\ histB = NoHist
  /\ named = [any |-> {}, other |-> {}]
  /\ adapter = "both"
  /\ procs = [p \in Procs |-> Idle]

Init == Opened /\ track = "none"

InitWritten == Opened /\ track = "written"

InitLive == Opened /\ track = "live"

InitDeleted == Opened /\ track = "deleted"

InitDropped == Opened /\ track = "dropped"

\* One call, made on both adapters: a and b are what the adapters' methods
\* give for it, [db |-> the store afterwards, res |-> what is returned].
Call(op, bucket, key, model, ptr, a, b) ==
  /\ bolt' = a.db
  /\ level' = b.db
  /\ last' = [op |-> op, bucket |-> bucket, key |-> key, model |-> model,
              ptr |-> ptr, A |-> a.res, B |-> b.res]
  /\ track' = track
  /\ histA' = HistStep(histA, op, bucket, key, a.res.err)
  /\ histB' = HistStep(histB, op, bucket, key, b.res.err)
  /\ named' = NamedStep(op, bucket, a.res.err)
  /\ UNCHANGED <<adapter, procs>>

\* ------------------------------------------------------------------ actions
\* BS is the set of bucket names the caller uses.

Count(BS) ==
  \E bucket \in BS :
    Call("Count", bucket, NoKey, NoValue, FALSE,
         BboltCount(bolt, bucket), LevelCount(level, bucket))

Create(BS) ==
  \E bucket \in BS, key \in Keys, model \in Models :
    Call("Create", bucket, key, model, FALSE,
         BboltCreate(bolt, bucket, key, model),
         LevelCreate(level, bucket, key, model))

Read(BS) ==
  \E bucket \in BS, key \in Keys :
    Call("Read", bucket, key, NoValue, TRUE,
         BboltRead(bolt, bucket, key), LevelRead(level, bucket, key))

Update(BS) ==
  \E bucket \in BS, key \in Keys, model \in Models :
    Call("Update", bucket, key, model, FALSE,
         BboltUpdate(bolt, bucket, key, model),
         LevelUpdate(level, bucket, key, model))

Delete(BS) ==
  \E bucket \in BS, key \in Keys :
    Call("Delete", bucket, key, NoValue, FALSE,
         BboltDelete(bolt, bucket, key), LevelDelete(level, bucket, key))

Drop(BS) ==
  \E bucket \in BS :
    Call("Drop", bucket, NoKey, NoValue, FALSE,
         BboltDrop(bolt, bucket), LevelDrop(level, bucket))

Get(BS) ==
  \E bucket \in BS, ptr \in BOOLEAN :
    Call("Get", bucket, NoKey, NoValue, ptr,
         BboltGet(bolt, bucket, ptr), LevelGet(level, bucket, ptr))

\* Drop of a bucket that holds at least one record (on both adapters).
DropPopulated(BS) ==
  \E bucket \in BS :
    /\ bucket \in DOMAIN bolt
    /\ DOMAIN bolt[bucket] # {}
    /\ PrefixScan(level, bucket) # {}
    /\ Call("Drop", bucket, NoKey, NoValue, FALSE,
            BboltDrop(bolt, bucket), LevelDrop(level, bucket))

Next ==
  \/ Count(Buckets)
  \/ Create(Buckets)
  \/ Read(Buckets)
  \/ Update(Buckets)
  \/ Delete(Buckets)
  \/ Drop(Buckets)
  \/ Get(Buckets)

\* Any sequence of calls, on buckets "a" and "a_b".
Spec == Init /\ [][Next]_vars

\* The same, with one of the histories recorded.
SpecWritten == InitWritten /\ [][Next]_vars

SpecLive == InitLive /\ [][Next]_vars

SpecDeleted == InitDeleted /\ [][Next]_vars

SpecDropped == InitDropped /\ [][Next]_vars

NextPlain ==
  \/ Count(PlainBuckets)
  \/ Create(PlainBuckets)
  \/ Read(PlainBuckets)
  \/ Update(PlainBuckets)
  \/ Delete(PlainBuckets)
  \/ DropPopulated(PlainBuckets)
  \/ Get(PlainBuckets)

\* Any sequence of calls on buckets without an underscore, "a" and "b", where
\* Drop is only called on a bucket that holds a record.
SpecPlain == Init /\ [][NextPlain]_vars

\* ------------------------------------------------------------------ claims

\* The bytes stored for (bucket, key) on each adapter, Nil if there are none.
StoredA(db, bucket, key) ==
  IF bucket \in DOMAIN db /\ key \in DOMAIN db[bucket] THEN db[bucket][key] ELSE Nil

StoredB(db, bucket, key) ==
  IF PhysKey(bucket, key) \in DOMAIN db THEN db[PhysKey(bucket, key)] ELSE Nil

LastPair == <<last.bucket, last.key>>

\* C1: when Create(bucket, key, value) returned success, the Read(bucket, key)
\* issued next returns success and yields exactly value, on either adapter.
C1_CreateThenRead ==
  last.op = "Create" =>
    /\ last.A.err = ErrNone =>
         BboltRead(bolt, last.bucket, last.key).res
           = Result(ErrNone, 0, last.model, EmptyMap)
    /\ last.B.err = ErrNone =>
         LevelRead(level, last.bucket, last.key).res
           = Result(ErrNone, 0, last.model, EmptyMap)

\* A Create of the largest value has succeeded on both adapters.
C1_Witness ==
  /\ last.op = "Create"
  /\ last.model = StructOf(MaxN)
  /\ last.A.err = ErrNone
  /\ last.B.err = ErrNone

\* C2: Create on a (bucket, key) that holds a record returns AlreadyExists and
\* leaves the stored value of (bucket, key) unchanged, on either adapter.
C2_CreateNeverOverwrites ==
  [][last'.op = "Create" =>
       /\ StoredA(bolt, last'.bucket, last'.key) # Nil =>
            /\ last'.A.err = ErrAlreadyExists
            /\ StoredA(bolt', last'.bucket, last'.key)
                 = StoredA(bolt, last'.bucket, last'.key)
       /\ StoredB(level, last'.bucket, last'.key) # Nil =>
            /\ last'.B.err = ErrAlreadyExists
            /\ StoredB(level', last'.bucket, last'.key)
                 = StoredB(level, last'.bucket, last'.key)]_vars

\* A Create with a value other than the stored one was refused on both.
C2_Witness ==
  /\ last.op = "Create"
  /\ last.model \in GoodModels
  /\ last.A.err = ErrAlreadyExists
  /\ last.B.err = ErrAlreadyExists
  /\ StoredA(bolt, last.bucket, last.key) # Marshal(last.model).data
  /\ StoredB(level, last.bucket, last.key) # Marshal(last.model).data

\* C3: Read, Update and Delete on a (bucket, key) that no successful Create or
\* Update has named fail with NotFound, on either adapter, whatever other
\* pairs have been written.
C3_NeverWrittenNotFound ==
  [][(track = "written" /\ last'.op \in {"Read", "Update", "Delete"}) =>
       /\ <<last'.bucket, last'.key>> \notin histA.written =>
            last'.A.err = ErrNotFound
       /\ <<last'.bucket, last'.key>> \notin histB.written =>
            last'.B.err = ErrNotFound]_vars

\* C4: after a successful Delete(bucket, key), Read(bucket, key) fails with
\* NotFound until a later Create(bucket, key) succeeds, on either adapter.
C4_DeletedStaysNotFound ==
  (track = "deleted" /\ last.op = "Read") =>
    /\ LastPair \in histA.deleted => last.A.err = ErrNotFound
    /\ LastPair \in histB.deleted => last.B.err = ErrNotFound

\* The number of keys created in the bucket and not since deleted or dropped.
LiveCount(h, bucket) == Cardinality({q \in h.live : q[1] = bucket})

\* C5: Count(bucket) returns, without error, the number of keys created in the
\* bucket and not since deleted or dropped, on either adapter.
C5_CountIsLiveRecords ==
  (track = "live" /\ last.op = "Count") =>
    /\ last.A = Result(ErrNone, LiveCount(histA, last.bucket), NoValue, EmptyMap)
    /\ last.B = Result(ErrNone, LiveCount(histB, last.bucket), NoValue, EmptyMap)

\* C6: the integer returned by Count(bucket) is the number of keys of the
\* mapping Get(bucket, ...) returns in the same state, on either adapter.
C6_CountEqualsGetKeys ==
  /\ last.op = "Count" =>
       \A ptr \in BOOLEAN :
         /\ BboltGet(bolt, last.bucket, ptr).res.err = ErrNone
         /\ LevelGet(level, last.bucket, ptr).res.err = ErrNone
         /\ last.A.count
              = Cardinality(DOMAIN BboltGet(bolt, last.bucket, ptr).res.results)
         /\ last.B.count
              = Cardinality(DOMAIN LevelGet(level, last.bucket, ptr).res.results)
  /\ last.op = "Get" =>
       /\ last.A.err = ErrNone
       /\ last.B.err = ErrNone
       /\ Cardinality(DOMAIN last.A.results)
            = BboltCount(bolt, last.bucket).res.count
       /\ Cardinality(DOMAIN last.B.results)
            = LevelCount(level, last.bucket).res.count

\* Count has returned 2 on both adapters.
C6_Witness ==
  /\ last.op = "Count"
  /\ last.A.count = 2
  /\ last.B.count = 2

\* C7: after a successful Drop(bucket), Get(bucket, ...) returns an empty
\* mapping without error and Read of every key of the bucket fails with
\* NotFound, until a later Create in the bucket succeeds, on either adapter.
C7_DroppedStaysEmpty ==
  track = "dropped" =>
    /\ last.op = "Get" =>
         /\ last.bucket \in histA.dropped =>
              last.A = Result(ErrNone, 0, NoValue, EmptyMap)
         /\ last.bucket \in histB.dropped =>
              last.B = Result(ErrNone, 0, NoValue, EmptyMap)
    /\ last.op = "Read" =>
         /\ last.bucket \in histA.dropped => last.A.err = ErrNotFound
         /\ last.bucket \in histB.dropped => last.B.err = ErrNotFound

\* C8: an Update that returns an error (NotFound or an encoding failure)
\* leaves the value stored at every pair as it was, on either adapter.
C8_FailedUpdateKeepsRecords ==
  [][last'.op = "Update" =>
       /\ last'.A.err # ErrNone =>
            \A bucket \in AllBuckets, key \in Keys :
              StoredA(bolt', bucket, key) = StoredA(bolt, bucket, key)
       /\ last'.B.err # ErrNone =>
            \A bucket \in AllBuckets, key \in Keys :
              StoredB(level', bucket, key) = StoredB(level, bucket, key)]_vars

\* An Update of a stored record failed to encode on both adapters.
C8_Witness ==
  /\ last.op = "Update"
  /\ last.A.err = ErrSerialization
  /\ last.B.err = ErrSerialization
  /\ StoredA(bolt, last.bucket, last.key) # Nil
  /\ StoredB(level, last.bucket, last.key) # Nil

\* C9: with bucket names without an underscore, and Drop called only on
\* buckets that hold a record, every call returns the same error, count, value
\* and mapping on Adapter A as on Adapter B.
C9_AdaptersAgree == last.A = last.B

\* Both adapters returned the same two-key mapping of distinct values for "a",
\* one key holding an underscore, while "b" holds a record too.
C9_Witness ==
  /\ last.op = "Get"
  /\ last.bucket = StrA
  /\ ~last.ptr
  /\ DOMAIN last.A.results = Keys
  /\ last.A.results[StrC] # last.A.results[StrBC]
  /\ last.A = last.B
  /\ StoredA(bolt, StrB, StrC) # Nil
  /\ StoredB(level, StrB, StrC) # Nil

\* Drop of a bucket that does not exist: an error and no change on Adapter A,
\* success and no change on Adapter B.
DropOfMissingBucket ==
  last'.op = "Drop" =>
    /\ last'.bucket \notin DOMAIN bolt =>
         /\ last'.A.err = ErrBucketNotFound
         /\ bolt' = bolt
    /\ PrefixScan(level, last'.bucket) = {} =>
         /\ last'.B.err = ErrNone
         /\ level' = level

\* C10, as stated: the above, and on Adapter A the buckets that do not exist
\* are exactly those no call has named since the store was opened or since
\* their last successful Drop.
C10_DropMissingBucket ==
  [][/\ DropOfMissingBucket
     /\ \A bucket \in AllBuckets :
          bucket \notin DOMAIN bolt' <=> bucket \notin named'.any]_vars

\* C10, amended: ... exactly those no call other than Drop has named since the
\* store was opened or since their last successful Drop.
C10_DropMissingBucketAmended ==
  [][/\ DropOfMissingBucket
     /\ \A bucket \in AllBuckets :
          bucket \notin DOMAIN bolt' <=> bucket \notin named'.other]_vars

\* Drop of a bucket that no call had named failed on Adapter A and succeeded
\* on Adapter B, with another bucket's records in both stores.
C10_Witness ==
  /\ last.op = "Drop"
  /\ last.A.err = ErrBucketNotFound
  /\ last.B.err = ErrNone
  /\ last.bucket \notin named.other
  /\ DOMAIN bolt # {}
  /\ level # EmptyMap

\* The buckets of Adapter B: the names that are the prefix of a stored key.
ExistingB(db) == {bucket \in AllBuckets : PrefixScan(db, bucket) # {}}

\* C11: a Read, Update or Delete that fails with NotFound, and a Count or Get,
\* on a bucket that does not exist leaves the set of existing buckets as it
\* was, on either adapter; on Adapter A a following Drop still reports an error.
C11_ProbeCreatesNoBucket ==
  [][/\ (\/ last'.op \in {"Count", "Get"}
         \/ last'.op \in {"Read", "Update", "Delete"} /\ last'.A.err = ErrNotFound)
          => (last'.bucket \notin DOMAIN bolt =>
                /\ DOMAIN bolt' = DOMAIN bolt
                /\ BboltDrop(bolt', last'.bucket).res.err = ErrBucketNotFound)
     /\ (\/ last'.op \in {"Count", "Get"}
         \/ last'.op \in {"Read", "Update", "Delete"} /\ last'.B.err = ErrNotFound)
          => (last'.bucket \notin ExistingB(level) =>
                ExistingB(level') = ExistingB(level))]_vars

\* C12: a Create, Update, Delete or Drop on one bucket leaves every record of
\* every other bucket as it was, and Count and Get of the other bucket return
\* the same before and after, on either adapter.
C12_BucketsIndependent ==
  [][last'.op \in {"Create", "Update", "Delete", "Drop"} =>
       \A other \in AllBuckets \ {last'.bucket} :
         /\ \A key \in Keys :
              /\ StoredA(bolt', other, key) = StoredA(bolt, other, key)
              /\ StoredB(level', other, key) = StoredB(level, other, key)
         /\ BboltCount(bolt', other).res = BboltCount(bolt, other).res
         /\ LevelCount(level', other).res = LevelCount(level, other).res
         /\ \A ptr \in BOOLEAN :
              /\ BboltGet(bolt', other, ptr).res = BboltGet(bolt, other, ptr).res
              /\ LevelGet(level', other, ptr).res = LevelGet(level, other, ptr).res]_vars

\* C13: the mapping Get returns has exactly the bucket's keys and gives each
\* key the value last written to it (the decoding of its own bytes), on either
\* adapter.
C13_GetOwnValues ==
  last.op = "Get" =>
    /\ DOMAIN last.A.results = {k \in Keys : StoredA(bolt, last.bucket, k) # Nil}
    /\ \A k \in DOMAIN last.A.results :
         last.A.results[k]
           = Unmarshal(StoredA(bolt, last.bucket, k), last.ptr).value
    /\ DOMAIN last.B.results = {k \in Keys : StoredB(level, last.bucket, k) # Nil}
    /\ \A k \in DOMAIN last.B.results :
         last.B.results[k]
           = Unmarshal(StoredB(level, last.bucket, k), last.ptr).value

\* b1+"_"+k1, as the claim writes it.
Concat(bucket, key) == bucket \o <<Underscore>> \o key

\* C14: on Adapter B two pairs are one stored record exactly when their
\* concatenations bucket+"_"+key are equal: what a Create, Update or Delete
\* of one pair stores is what a Read or Create of the other finds, and a Read
\* of one returns what a Read of the other does; pairs whose concatenations
\* differ are not affected by a Create, Read, Update or Delete of the pair.
C14_SameConcatSameRecord ==
  [][last'.op \in {"Create", "Read", "Update", "Delete"} =>
       \A bucket \in AllBuckets, key \in Keys :
         IF Concat(bucket, key) = Concat(last'.bucket, last'.key)
         THEN /\ (last'.op \in {"Create", "Update"} /\ last'.B.err = ErrNone) =>
                   /\ LevelRead(level', bucket, key).res
                        = Result(ErrNone, 0, last'.model, EmptyMap)
                   /\ \A model \in Models :
                        LevelCreate(level', bucket, key, model).res.err
                          = ErrAlreadyExists
              /\ (last'.op = "Delete" /\ last'.B.err = ErrNone) =>
                   LevelRead(level', bucket, key).res.err = ErrNotFound
              /\ last'.op = "Read" =>
                   last'.B = LevelRead(level, bucket, key).res
         ELSE LevelRead(level', bucket, key).res
                = LevelRead(level, bucket, key).res]_vars

\* After "a"/"b_c" was created, Create("a_b", "c", Y) was refused by Adapter B
\* (and accepted by Adapter A, where the pairs are distinct), and the record
\* still holds another value than Y.
C14_Witness ==
  /\ last.op = "Create"
  /\ last.bucket = StrAB
  /\ last.key = StrC
  /\ last.model \in GoodModels
  /\ last.A.err = ErrNone
  /\ last.B.err = ErrAlreadyExists
  /\ LevelRead(level, StrAB, StrC).res.value # last.model
  /\ LevelRead(level, StrAB, StrC).res = LevelRead(level, StrA, StrBC).res

\* ------------------------------------------------------------------ concurrent callers
\* Two goroutines call methods of one adapter instance, each one call, on the
\* bucket "a".  A step is one engine operation: a bbolt transaction
\* (db.Update, db.View), or a LevelDB db.Get, db.Put, db.Delete or the
\* snapshot a new iterator reads.  Neither adapter adds a lock of its own.

ConcBucket == StrA

\* The calls a goroutine can make.
ConcCalls ==
  LET call(op, key, model, ptr) ==
        [op |-> op, bucket |-> ConcBucket, key |-> key, model |-> model, ptr |-> ptr]
  IN {call(op, NoKey, NoValue, FALSE) : op \in {"Count", "Drop"}}
     \cup {call("Get", NoKey, NoValue, ptr) : ptr \in BOOLEAN}
     \cup {call(op, key, NoValue, op = "Read") :
             op \in {"Read", "Delete"}, key \in Keys}
     \cup {call(op, key, model, FALSE) :
             op \in {"Create", "Update"}, key \in Keys, model \in Models}

\* The store is empty, or holds "a"/"c" = {N:1} from an earlier Create.
InitConc ==
  /\ adapter \in {"bbolt", "leveldb"}
  /\ procs = [p \in Procs |-> Idle]
  /\ track = "none"
  /\ histA = NoHist
  /\ histB = NoHist
  /\ \/ /\ bolt = EmptyMap
        /\ level = EmptyMap
        /\ last = [op |-> "Open", bucket |-> NoKey, key |-> NoKey,
                   model |-> NoValue, ptr |-> FALSE,
                   A |-> Result(ErrNone, 0, NoValue, EmptyMap),
                   B |-> Result(ErrNone, 0, NoValue, EmptyMap)]
        /\ named = [any |-> {}, other |-> {}]
     \/ LET a == BboltCreate(EmptyMap, ConcBucket, StrC, StructOf(1))
            b == LevelCreate(EmptyMap, ConcBucket, StrC, StructOf(1))
        IN /\ bolt = a.db
           /\ level = b.db
           /\ last = [op |-> "Create", bucket |-> ConcBucket, key |-> StrC,
                      model |-> StructOf(1), ptr |-> FALSE,
                      A |-> a.res, B |-> b.res]
           /\ named = [any |-> {ConcBucket}, other |-> {ConcBucket}]

Done(pr, res) == [pr EXCEPT !.pc = "done", !.res = res]

\* A method called on a nil *bbolt.Bucket: the goroutine panics.
Panic(pr) == [pr EXCEPT !.pc = "panic"]

ErrorOnly(err) == Result(err, 0, NoValue, EmptyMap)

\* The first engine operation of a call.
FirstPc(op) ==
  IF adapter = "bbolt" THEN (IF op = "Drop" THEN "drop" ELSE "check")
  ELSE IF op \in {"Count", "Get", "Drop"} THEN "scan" ELSE "lget"

\* What Read, Create, Update and Delete do once the existence probe has
\* returned data (Nil: no record): return, or go on to the write at putPc or
\* the removal at delPc.  json.Marshal runs between the probe and the write.
AfterProbe(pr, data, putPc, delPc) ==
  LET found == data # Nil
      m == Marshal(pr.model)
      u == Unmarshal(data, TRUE)
      toWrite == IF m.err # ErrNone THEN Done(pr, ErrorOnly(m.err))
                 ELSE [pr EXCEPT !.pc = putPc, !.data = m.data]
  IN CASE pr.op = "Read" ->
            IF found THEN Done(pr, Result(u.err, 0, u.value, EmptyMap))
            ELSE Done(pr, ErrorOnly(ErrNotFound))
       [] pr.op = "Create" ->
            IF found THEN Done(pr, ErrorOnly(ErrAlreadyExists)) ELSE toWrite
       [] pr.op = "Update" ->
            IF found THEN toWrite ELSE Done(pr, ErrorOnly(ErrNotFound))
       [] pr.op = "Delete" ->
            IF found THEN [pr EXCEPT !.pc = delPc]
            ELSE Done(pr, ErrorOnly(ErrNotFound))

\* What a step leaves alone besides the stores and procs.
CallerFrame == UNCHANGED <<last, track, histA, histB, named, adapter>>

\* A goroutine calls a method.
Begin(p) ==
  /\ procs[p].pc = "idle"
  /\ \E call \in ConcCalls :
       procs' = [procs EXCEPT ![p] =
                   [op |-> call.op, bucket |-> call.bucket, key |-> call.key,
                    model |-> call.model, ptr |-> call.ptr,
                    pc |-> FirstPc(call.op), data |-> Nil, scan |-> {},
                    res |-> ErrorOnly(ErrNone)]]
  /\ UNCHANGED <<bolt, level>>
  /\ CallerFrame

\* checkBucket: the update transaction that ensures the bucket, at the start
\* of Count, Get and view ("check") and in write ("wcheck").
BboltCheckBucketTx(p) ==
  LET pr == procs[p]
  IN /\ adapter = "bbolt"
     /\ pr.pc \in {"check", "wcheck"}
     /\ bolt' = checkBucket(bolt, pr.bucket)
     /\ procs' = [procs EXCEPT ![p].pc =
                    IF pr.pc = "wcheck" THEN "put"
                    ELSE IF pr.op = "Count" THEN "count"
                    ELSE IF pr.op = "Get" THEN "foreach"
                    ELSE "view"]
     /\ UNCHANGED level
     /\ CallerFrame

\* The read transaction of view: tx.Bucket(bucket), then b.Get(key).
BboltViewTx(p) ==
  LET pr == procs[p]
  IN /\ adapter = "bbolt"
     /\ pr.pc = "view"
     /\ procs' = [procs EXCEPT ![p] =
                    IF pr.bucket \notin DOMAIN bolt THEN Panic(pr)
                    ELSE AfterProbe(pr, StoredA(bolt, pr.bucket, pr.key),
                                    "wcheck", "delete")]
     /\ UNCHANGED <<bolt, level>>
     /\ CallerFrame

\* The update transaction of write: tx.Bucket(bucket), then b.Put(key, data).
BboltPutTx(p) ==
  LET pr == procs[p]
      missing == pr.bucket \notin DOMAIN bolt
  IN /\ adapter = "bbolt"
     /\ pr.pc = "put"
     /\ bolt' = IF missing THEN bolt
                ELSE MapPut(bolt, pr.bucket, MapPut(bolt[pr.bucket], pr.key, pr.data))
     /\ procs' = [procs EXCEPT ![p] =
                    IF missing THEN Panic(pr) ELSE Done(pr, ErrorOnly(ErrNone))]
     /\ UNCHANGED level
     /\ CallerFrame

\* The update transaction of Delete: tx.Bucket(bucket), then b.Delete(key).
BboltDeleteTx(p) ==
  LET pr == procs[p]
      missing == pr.bucket \notin DOMAIN bolt
  IN /\ adapter = "bbolt"
     /\ pr.pc = "delete"
     /\ bolt' = IF missing THEN bolt
                ELSE MapPut(bolt, pr.bucket, MapDelete(bolt[pr.bucket], pr.key))
     /\ procs' = [procs EXCEPT ![p] =
                    IF missing THEN Panic(pr) ELSE Done(pr, ErrorOnly(ErrNone))]
     /\ UNCHANGED level
     /\ CallerFrame

\* Drop: its one update transaction.
BboltDropTx(p) ==
  LET pr == procs[p]
      d == BboltDrop(bolt, pr.bucket)
  IN /\ adapter = "bbolt"
     /\ pr.pc = "drop"
     /\ bolt' = d.db
     /\ procs' = [procs EXCEPT ![p] = Done(pr, d.res)]
     /\ UNCHANGED level
     /\ CallerFrame

\* The read transaction of Count: tx.Bucket(bucket), then b.Stats().
BboltCountTx(p) ==
  LET pr == procs[p]
  IN /\ adapter = "bbolt"
     /\ pr.pc = "count"
     /\ procs' = [procs EXCEPT ![p] =
                    IF pr.bucket \notin DOMAIN bolt THEN Panic(pr)
                    ELSE Done(pr, Result(ErrNone,
                                         Cardinality(DOMAIN bolt[pr.bucket]),
                                         NoValue, EmptyMap))]
     /\ UNCHANGED <<bolt, level>>
     /\ CallerFrame

\* The read transaction of Get: tx.Bucket(bucket), then b.ForEach.
BboltForEachTx(p) ==
  LET pr == procs[p]
      f == BboltForEach(bolt[pr.bucket], DOMAIN bolt[pr.bucket], pr.ptr, EmptyMap)
  IN /\ adapter = "bbolt"
     /\ pr.pc = "foreach"
     /\ procs' = [procs EXCEPT ![p] =
                    IF pr.bucket \notin DOMAIN bolt THEN Panic(pr)
                    ELSE Done(pr, Result(f.err, 0, NoValue, f.results))]
     /\ UNCHANGED <<bolt, level>>
     /\ CallerFrame

\* db.Get(bucket+"_"+key) of Read, Create, Update and Delete.
LevelGetOp(p) ==
  LET pr == procs[p]
  IN /\ adapter = "leveldb"
     /\ pr.pc = "lget"
     /\ procs' = [procs EXCEPT ![p] =
                    AfterProbe(pr, StoredB(level, pr.bucket, pr.key), "lput", "ldel")]
     /\ UNCHANGED <<bolt, level>>
     /\ CallerFrame

\* db.Put(bucket+"_"+key, data) of Create and Update.
LevelPutOp(p) ==
  LET pr == procs[p]
  IN /\ adapter = "leveldb"
     /\ pr.pc = "lput"
     /\ level' = MapPut(level, PhysKey(pr.bucket, pr.key), pr.data)
     /\ procs' = [procs EXCEPT ![p] = Done(pr, ErrorOnly(ErrNone))]
     /\ UNCHANGED bolt
     /\ CallerFrame

\* db.Delete(bucket+"_"+key) of Delete.
LevelDeleteOp(p) ==
  LET pr == procs[p]
  IN /\ adapter = "leveldb"
     /\ pr.pc = "ldel"
     /\ level' = MapDelete(level, PhysKey(pr.bucket, pr.key))
     /\ procs' = [procs EXCEPT ![p] = Done(pr, ErrorOnly(ErrNone))]
     /\ UNCHANGED bolt
     /\ CallerFrame

\* db.NewIterator of Count, Get and Drop: the iterator reads the snapshot
\* taken here; Count and Get return what it holds, Drop goes on to delete
\* its keys one by one.
LevelIteratorOp(p) ==
  LET pr == procs[p]
      scan == PrefixScan(level, pr.bucket)
  IN /\ adapter = "leveldb"
     /\ pr.pc = "scan"
     /\ procs' = [procs EXCEPT ![p] =
                    IF pr.op = "Count" THEN Done(pr, LevelCount(level, pr.bucket).res)
                    ELSE IF pr.op = "Get"
                    THEN Done(pr, LevelGet(level, pr.bucket, pr.ptr).res)
                    ELSE IF scan = {} THEN Done(pr, ErrorOnly(ErrNone))
                    ELSE [pr EXCEPT !.pc = "ldropdel", !.scan = scan]]
     /\ UNCHANGED <<bolt, level>>
     /\ CallerFrame

\* db.Delete(iter.Key()) in the loop of Drop.
LevelDropDeleteOp(p) ==
  LET pr == procs[p]
      k == CHOOSE x \in pr.scan : \A o \in pr.scan \ {x} : BytesLess(x, o)
      rest == pr.scan \ {k}
  IN /\ adapter = "leveldb"
     /\ pr.pc = "ldropdel"
     /\ level' = MapDelete(level, k)
     /\ procs' = [procs EXCEPT ![p] =
                    IF rest = {} THEN Done(pr, ErrorOnly(ErrNone))
                    ELSE [pr EXCEPT !.scan = rest]]
     /\ UNCHANGED bolt
     /\ CallerFrame

\* A panic ends the program.
Running == \A p \in Procs : procs[p].pc # "panic"

NextConc ==
  \E p \in Procs :
    /\ Running
    /\ \/ Begin(p)
       \/ BboltCheckBucketTx(p)
       \/ BboltViewTx(p)
       \/ BboltPutTx(p)
       \/ BboltDeleteTx(p)
       \/ BboltDropTx(p)
       \/ BboltCountTx(p)
       \/ BboltForEachTx(p)
       \/ LevelGetOp(p)
       \/ LevelPutOp(p)
       \/ LevelDeleteOp(p)
       \/ LevelIteratorOp(p)
       \/ LevelDropDeleteOp(p)

\* Two concurrent calls on one adapter, in every interleaving of their engine
\* operations.
SpecConc == InitConc /\ [][NextConc]_vars

\* The bytes stored for (bucket, key) on the adapter the goroutines share.
StoredConc(bucket, key) ==
  IF adapter = "bbolt" THEN StoredA(bolt, bucket, key)
  ELSE StoredB(level, bucket, key)

AllDone == \A p \in Procs : procs[p].pc = "done"

\* C15: of two concurrent Create calls for one (bucket, key) that held no
\* record, with different values, at most one returns success, and the value
\* stored afterwards is that of the call that returned success.
C15_ConcurrentCreate ==
  \A p, q \in Procs :
    (/\ p # q
     /\ AllDone
     /\ procs[p].op = "Create"
     /\ procs[q].op = "Create"
     /\ procs[p].key = procs[q].key
     /\ procs[p].model # procs[q].model
     /\ <<procs[p].bucket, procs[p].key>> # LastPair)
    => /\ ~(procs[p].res.err = ErrNone /\ procs[q].res.err = ErrNone)
       /\ procs[p].res.err = ErrNone =>
            StoredConc(procs[p].bucket, procs[p].key) = Marshal(procs[p].model).data

\* C16: when an Update of (bucket, key) ran concurrently with a Delete of the
\* pair or a Drop of the bucket and both returned success, the pair holds no
\* record once both have returned.
C16_UpdateNeverInserts ==
  \A p, q \in Procs :
    (/\ p # q
     /\ AllDone
     /\ procs[p].op = "Update"
     /\ procs[q].op \in {"Delete", "Drop"}
     /\ procs[q].op = "Delete" => procs[q].key = procs[p].key
     /\ procs[p].res.err = ErrNone
     /\ procs[q].res.err = ErrNone)
    => StoredConc(procs[p].bucket, procs[p].key) = Nil

\* C17: on Adapter A no call concurrent with a Drop of its bucket finds the
\* bucket missing in the transaction after checkBucket: the call never uses
\* a nil bucket handle, so its goroutine does not panic.
C17_BucketPresent ==
  \A p, q \in Procs :
    (adapter = "bbolt" /\ p # q /\ procs[q].op = "Drop") => procs[p].pc # "panic"

====
